---- MODULE Spec2Model ----
(***************************************************************************)
(* Incident Management System (src/app.py): the Flask handlers login,      *)
(* logout, create_incident, update_incident and delete_incident over the   *)
(* User and Incident tables, with the e-mail notifications each request    *)
(* hands to send_notification.                                             *)
(*                                                                         *)
(* A form field is modelled as a sequence of length at most one: << >> is  *)
(* a field the request does not carry (request.form.get returns None) and  *)
(* <<v>> a field carrying the value v.  The value of assigned_to_id is a   *)
(* string of characters, modelled as a sequence of one-character strings,  *)
(* so that isdigit() and int() are computed, not assumed.                  *)
(***************************************************************************)
EXTENDS Integers, Sequences, FiniteSets, TLC

\* ---------------------------------------------------------------- bounds
\* Highest incident id the store hands out (create is disabled beyond it).
MaxId == 1

\* The most mail threads in flight; a request that would start more waits.
MaxThreads == 2

\* ------------------------------------------------------------- constants
\* Number of users seeded by initdb (admin, tech_alice, reporter_bob).
NUsers == 3

Users == 1..NUsers

\* NULL of an integer column / no authenticated user (ids are positive).
NoUser == 0

\* Role column of the seeded users: 1=Admin/Manager, 2=Technician, 3=Reporter.
SeedRole == <<1, 2, 3>>

SeedUsername == <<"admin", "tech_alice", "reporter_bob">>

SeedEmail == <<"sohafarzee@gmail.com", "sabahathsiddiqua@gmail.com", "22cse056@bnmit.in">>

\* A request field that is not carried, and one that carries v.
Absent == << >>

Field(v) == <<v>>

\* Truthy, were the check "is not None".
Truthy_notNone(f) == f # Absent

\* Python truthiness of request.form.get(...): None and "" are falsy.
Truthy(f) == f # Absent /\ f[1] # ""

\* -------------------------------------------------------- request inputs
\* title, description, priority of a create request: all three given, or
\* exactly one of them missing (None) or blank ("").
CreateInputs ==
    {<<Field("Disk full"), Field("root fs at 100%"), Field("High")>>,
     <<Absent, Field("root fs at 100%"), Field("High")>>,
     <<Field(""), Field("root fs at 100%"), Field("High")>>,
     <<Field("Disk full"), Absent, Field("High")>>,
     <<Field("Disk full"), Field(""), Field("High")>>,
     <<Field("Disk full"), Field("root fs at 100%"), Absent>>,
     <<Field("Disk full"), Field("root fs at 100%"), Field("")>>}

StatusInputs == {Absent, Field(""), Field("New"), Field("InProgress")}

AssigneeInputs ==
    {Absent, Field(<< >>), Field(<<"0">>), Field(<<"-", "1">>),
     Field(<<"1">>), Field(<<"2">>), Field(<<"3">>)}

\* Requests that may also carry a status outside the four enumerated values,
\* an assigned_to_id that is no number, and the id of no user.
WideStatusInputs == StatusInputs \cup {Field("Reopened")}

WideAssigneeInputs == AssigneeInputs \cup {Field(<<"x">>), Field(<<"4">>)}

UsernameInputs == {Field("admin"), Field("tech_alice"), Field("reporter_bob"), Field("mallory")}

IncidentIds == 1..MaxId

\* ------------------------------------------------------------------ state
VARIABLES
    email,         \* User.email of each seeded user ("" when not set)
    incidents,     \* the Incident table: id -> row
    current_user,  \* flask_login's current_user: a user id, or NoUser
    flashed,       \* the messages flash()ed by the last request, in order
    sent,          \* the messages the last request handed to send_notification
    response,      \* where the last request redirected / what it rendered
    request,       \* the route of the last request and the incident id in its path
    threads,       \* how many mail threads have been started and have not finished
    printed,       \* what the last mail thread to finish printed
    handlers       \* the update requests being handled concurrently: slot -> what
                   \* it read, where it is (pc) and the mails it has sent

vars == <<email, incidents, current_user, flashed, sent, response, request,
          threads, printed, handlers>>

\* The two requests that may be handled at the same time, and none of them.
Slots == {"a", "b"}

NoHandlers == [h \in {} |-> Absent]

\* What the handlers of a request, taken as one step, leave alone.
aux == <<threads, printed, handlers>>

\* A request to a route; id is the <int:incident_id> of its path (0: none).
Route(op, id) == [op |-> op, id |-> id]

\* ------------------------------------------------------------ conversions
Digits == <<"0", "1", "2", "3", "4", "5", "6", "7", "8", "9">>

IsDigitChar(c) == \E i \in 1..Len(Digits) : Digits[i] = c

\* str.isdigit(): non-empty and every character a digit.
IsDigit(s) == Len(s) > 0 /\ \A i \in 1..Len(s) : IsDigitChar(s[i])

DigitVal(c) == (CHOOSE i \in 1..Len(Digits) : Digits[i] = c) - 1

RECURSIVE ToInt(_)
\* int(s) of a digit string.
ToInt(s) == IF Len(s) = 0 THEN 0
            ELSE 10 * ToInt(SubSeq(s, 1, Len(s) - 1)) + DigitVal(s[Len(s)])

\* int(x) if x and x.isdigit() and int(x) > 0 else None
ParseAssignee(f) ==
    IF Len(f[1]) > 0 /\ IsDigit(f[1]) /\ ToInt(f[1]) > 0 THEN ToInt(f[1]) ELSE NoUser

\* ParseAssignee of each assigned_to_id value a request may carry.
ParsedAssignee == [f \in WideAssigneeInputs \ {Absent} |-> ParseAssignee(f)]

\* -------------------------------------------------------------- queries
\* User.query.filter_by(username=...).first()
UserByUsername(f) ==
    IF f # Absent /\ \E u \in Users : SeedUsername[u] = f[1]
    THEN CHOOSE u \in Users : SeedUsername[u] = f[1]
    ELSE NoUser

\* User.query.filter_by(id=...).first() is not None
UserExists(id) == id \in Users

\* is_authenticated, were login_required to let every request through.
is_authenticated_always == TRUE

\* current_user.is_authenticated
is_authenticated == current_user # NoUser

\* is_manager, were it to accept the Technician role as well.
is_manager_staff == current_user # NoUser /\ SeedRole[current_user] \in {1, 2}

is_manager == is_authenticated /\ SeedRole[current_user] = 1

\* is_technician, were it to check the login only.
is_technician_anyrole == current_user # NoUser

is_technician == is_authenticated /\ SeedRole[current_user] \in {1, 2}

RECURSIVE SetMax(_)
SetMax(S) == IF S = {} THEN 0
             ELSE LET x == CHOOSE x \in S : TRUE
                      m == SetMax(S \ {x})
                  IN IF x > m THEN x ELSE m

\* The integer primary key SQLite gives the next inserted row.
NextId == SetMax(DOMAIN incidents) + 1

\* A message started by send_notification(incident, recipient_email, subject, body).
Mail(subject, to, id) == [subject |-> subject, to |-> to, incident |-> id]

\* ------------------------------------------------------------------ init
\* The user table: the seeded users, each e-mail either the seeded address
\* or the column default "", with at most one user left without address.
EmailTables ==
    {e \in [Users -> {""} \cup {SeedEmail[u] : u \in Users}] :
        /\ \A u \in Users : e[u] \in {"", SeedEmail[u]}
        /\ \A u, v \in Users : e[u] = "" /\ e[v] = "" => u = v}

Init ==
    /\ email \in EmailTables
    /\ incidents = << >>
    /\ current_user = NoUser
    /\ flashed = << >>
    /\ sent = << >>
    /\ response = "none"
    /\ request = Route("none", 0)
    /\ threads = 0
    /\ printed = ""
    /\ handlers = NoHandlers

\* ---------------------------------------------------------------- login
\* POST/GET /login
login(method, username) ==
    /\ request' = Route("login", 0)
    /\ UNCHANGED <<email, incidents>>
    /\ sent' = << >>
    /\ IF is_authenticated
       THEN /\ current_user' = current_user
            /\ flashed' = << >>
            /\ response' = "index"
       ELSE IF method = "POST" /\ UserByUsername(username) # NoUser
            THEN /\ current_user' = UserByUsername(username)
                 /\ flashed' = <<"logged_in">>
                 /\ response' = "index"
            ELSE /\ current_user' = NoUser
                 /\ flashed' = IF method = "POST" THEN <<"invalid_username">> ELSE << >>
                 /\ response' = "login_page"

\* GET /logout (login_required)
logout ==
    /\ request' = Route("logout", 0)
    /\ UNCHANGED <<email, incidents>>
    /\ sent' = << >>
    /\ current_user' = NoUser
    /\ IF is_authenticated
       THEN flashed' = <<"logged_out">> /\ response' = "login"
       ELSE flashed' = << >> /\ response' = "login"

\* --------------------------------------------------------------- create
\* Incident(title=..., description=..., priority=..., reporter_id=current_user.id)
NewIncident(title, description, priority) ==
    [title |-> title, description |-> description, status |-> "New",
     priority |-> priority, reporter_id |-> current_user, assigned_to_id |-> NoUser]

RECURSIVE AdminMails_staff(_, _)
\* AdminMails, were the query to select the Technicians as well.
AdminMails_staff(u, id) ==
    IF u > NUsers THEN << >>
    ELSE (IF SeedRole[u] \in {1, 2} /\ email[u] # "" THEN <<Mail("NEW Incident", email[u], id)>> ELSE << >>)
         \o AdminMails_staff(u + 1, id)

RECURSIVE AdminMails(_, _)
\* for user in User.query.filter_by(role=1).all(): if user.email: send_notification(...)
AdminMails(u, id) ==
    IF u > NUsers THEN << >>
    ELSE (IF SeedRole[u] = 1 /\ email[u] # "" THEN <<Mail("NEW Incident", email[u], id)>> ELSE << >>)
         \o AdminMails(u + 1, id)

\* POST /incident/new (login_required)
create_incident(title, description, priority) ==
    /\ request' = Route("create", 0)
    /\ UNCHANGED <<email, current_user>>
    /\ IF ~is_authenticated
       THEN /\ UNCHANGED incidents
            /\ flashed' = << >>
            /\ sent' = << >>
            /\ response' = "login"
       ELSE IF ~Truthy(title) \/ ~Truthy(description) \/ ~Truthy(priority)
            THEN /\ UNCHANGED incidents
                 /\ flashed' = <<"fields_required">>
                 /\ sent' = << >>
                 /\ response' = "index"
            ELSE /\ NextId <= MaxId
                 /\ incidents' = incidents @@
                        (NextId :> NewIncident(title[1], description[1], priority[1]))
                 /\ flashed' = <<"created">>
                 /\ sent' = AdminMails(1, NextId)
                 /\ response' = "index"

\* --------------------------------------------------------------- update
\* 1. Update Status
StatusAfter(incident, new_status) ==
    IF Truthy(new_status) /\ new_status[1] # incident.status
    THEN new_status[1] ELSE incident.status

\* AssignAllowed, were every Technician allowed to assign to anyone.
AssignAllowed_staff(assigned_user_id) == is_technician

\* AssignAllowed, were self-assignment not provided for.
AssignAllowed_managerOnly(assigned_user_id) == is_manager

\* Only Managers can assign to someone else; Technicians can only self-assign.
AssignAllowed(assigned_user_id) == is_manager \/ assigned_user_id = current_user

\* AssigneeAfter, were a request without assigned_to_id read as "unassign".
AssigneeAfter_absentUnassigns(incident, assigned_user_id) ==
    LET target == IF assigned_user_id = Absent THEN NoUser
                  ELSE ParsedAssignee[assigned_user_id]
    IN IF target # incident.assigned_to_id /\ AssignAllowed(target)
       THEN target ELSE incident.assigned_to_id

\* 2. Update Assignment
AssigneeAfter(incident, assigned_user_id) ==
    IF assigned_user_id # Absent
       /\ ParsedAssignee[assigned_user_id] # incident.assigned_to_id
       /\ AssignAllowed(ParsedAssignee[assigned_user_id])
    THEN ParsedAssignee[assigned_user_id] ELSE incident.assigned_to_id

AssignDenied(incident, assigned_user_id) ==
    /\ assigned_user_id # Absent
    /\ ParsedAssignee[assigned_user_id] # incident.assigned_to_id
    /\ ~AssignAllowed(ParsedAssignee[assigned_user_id])

\* AssignmentMails, were a reassignment to tell the previous assignee as well.
AssignmentMails_reassign(id, incident, old_assignee_id) ==
    IF incident.assigned_to_id # old_assignee_id
    THEN (IF incident.assigned_to_id # NoUser
             /\ UserExists(incident.assigned_to_id) /\ email[incident.assigned_to_id] # ""
          THEN <<Mail("Assigned to You", email[incident.assigned_to_id], id)>>
          ELSE << >>)
         \o
         (IF old_assignee_id # NoUser
             /\ UserExists(old_assignee_id) /\ email[old_assignee_id] # ""
          THEN <<Mail("Unassigned", email[old_assignee_id], id)>>
          ELSE << >>)
    ELSE << >>

\* A. Assignment Change Notification
AssignmentMails(id, incident, old_assignee_id) ==
    IF incident.assigned_to_id # old_assignee_id
    THEN IF incident.assigned_to_id # NoUser
         THEN IF UserExists(incident.assigned_to_id) /\ email[incident.assigned_to_id] # ""
              THEN <<Mail("Assigned to You", email[incident.assigned_to_id], id)>>
              ELSE << >>
         ELSE IF old_assignee_id # NoUser
                 /\ UserExists(old_assignee_id) /\ email[old_assignee_id] # ""
              THEN <<Mail("Unassigned", email[old_assignee_id], id)>>
              ELSE << >>
    ELSE << >>

\* StatusMails, were the reporter notified on every accepted update.
StatusMails_always(id, incident, old_status) ==
    IF UserExists(incident.reporter_id) /\ email[incident.reporter_id] # ""
    THEN <<Mail("Status Updated to", email[incident.reporter_id], id)>>
    ELSE << >>

\* StatusMails, were the assignee notified of their own status change too.
StatusMails_actorToo(id, incident, old_status) ==
    IF incident.status # old_status
    THEN (IF UserExists(incident.reporter_id) /\ email[incident.reporter_id] # ""
          THEN <<Mail("Status Updated to", email[incident.reporter_id], id)>>
          ELSE << >>)
         \o
         (IF incident.assigned_to_id # NoUser
             /\ UserExists(incident.assigned_to_id) /\ email[incident.assigned_to_id] # ""
          THEN <<Mail("Status Change", email[incident.assigned_to_id], id)>>
          ELSE << >>)
    ELSE << >>

\* B. Status Change Notification (Notify Reporter and Assignee)
StatusMails(id, incident, old_status) ==
    IF incident.status # old_status
    THEN (IF UserExists(incident.reporter_id) /\ email[incident.reporter_id] # ""
          THEN <<Mail("Status Updated to", email[incident.reporter_id], id)>>
          ELSE << >>)
         \o
         (IF incident.assigned_to_id # NoUser /\ incident.assigned_to_id # current_user
             /\ UserExists(incident.assigned_to_id) /\ email[incident.assigned_to_id] # ""
          THEN <<Mail("Status Change", email[incident.assigned_to_id], id)>>
          ELSE << >>)
    ELSE << >>

UpdateFlashes(incident, updated, new_status, assigned_user_id) ==
    (IF updated.status # incident.status THEN <<"status_updated">> ELSE << >>)
    \o (IF AssignDenied(incident, assigned_user_id) THEN <<"denied_assign">> ELSE << >>)
    \o (IF updated.assigned_to_id # incident.assigned_to_id
           /\ updated.assigned_to_id # NoUser
           /\ UserExists(updated.assigned_to_id) /\ email[updated.assigned_to_id] # ""
        THEN <<"assignment_notified">> ELSE << >>)

\* Updated, were the row to take the updating user as its reporter.
Updated_reporter(incident, new_status, assigned_user_id) ==
    [incident EXCEPT !.status = StatusAfter(incident, new_status),
                     !.assigned_to_id = AssigneeAfter(incident, assigned_user_id),
                     !.reporter_id = current_user]

\* The row after steps 1 and 2.
Updated(incident, new_status, assigned_user_id) ==
    [incident EXCEPT !.status = StatusAfter(incident, new_status),
                     !.assigned_to_id = AssigneeAfter(incident, assigned_user_id)]

\* POST /incident/update/<int:incident_id> (login_required)
update_incident(incident_id, new_status, assigned_user_id) ==
    /\ request' = Route("update", incident_id)
    /\ UNCHANGED <<email, current_user>>
    /\ IF ~is_authenticated
       THEN /\ UNCHANGED incidents
            /\ flashed' = << >>
            /\ sent' = << >>
            /\ response' = "login"
       ELSE IF incident_id \notin DOMAIN incidents
            THEN /\ UNCHANGED incidents
                 /\ flashed' = <<"not_found">>
                 /\ sent' = << >>
                 /\ response' = "index"
            ELSE IF ~is_technician
                 THEN /\ UNCHANGED incidents
                      /\ flashed' = <<"denied_update">>
                      /\ sent' = << >>
                      /\ response' = "index"
                 ELSE LET incident == incidents[incident_id]
                          updated == Updated(incident, new_status, assigned_user_id)
                      IN /\ incidents' = [incidents EXCEPT ![incident_id] = updated]
                         /\ flashed' = UpdateFlashes(incident, updated, new_status, assigned_user_id)
                         /\ sent' = AssignmentMails(incident_id, updated, incident.assigned_to_id)
                                    \o StatusMails(incident_id, updated, incident.status)
                         /\ response' = "index"

\* --------------------------------------------------------------- delete
\* Without, were the delete never to reach the table.
Without_kept(table, id) == table

\* db.session.delete(incident)
Without(table, id) == [i \in DOMAIN table \ {id} |-> table[i]]

\* POST /incident/delete/<int:incident_id> (login_required)
delete_incident(incident_id) ==
    /\ request' = Route("delete", incident_id)
    /\ UNCHANGED <<email, current_user>>
    /\ sent' = << >>
    /\ IF ~is_authenticated
       THEN /\ UNCHANGED incidents
            /\ flashed' = << >>
            /\ response' = "login"
       ELSE IF incident_id \notin DOMAIN incidents
            THEN /\ UNCHANGED incidents
                 /\ flashed' = <<"not_found">>
                 /\ response' = "index"
            ELSE IF ~is_manager
                 THEN /\ UNCHANGED incidents
                      /\ flashed' = <<"denied_delete">>
                      /\ response' = "index"
                 ELSE /\ incidents' = Without(incidents, incident_id)
                      /\ flashed' = <<"deleted">>
                      /\ response' = "index"

\* ----------------------------------------------------------------- spec
\* One request after the other, each handled in one step; the mail threads
\* the requests start are not followed.
Next ==
    \/ login("GET", Absent) /\ UNCHANGED aux
    \/ \E u \in UsernameInputs : login("POST", u) /\ UNCHANGED aux
    \/ logout /\ UNCHANGED aux
    \/ \E c \in CreateInputs : create_incident(c[1], c[2], c[3]) /\ UNCHANGED aux
    \/ \E i \in IncidentIds, s \in StatusInputs, a \in AssigneeInputs :
           update_incident(i, s, a) /\ UNCHANGED aux
    \/ \E i \in IncidentIds : delete_incident(i) /\ UNCHANGED aux

Spec == Init /\ [][Next]_vars

\* The same requests, with forms that need not come from the portal's page:
\* any status string, any assigned_to_id string.
NextWide ==
    \/ login("GET", Absent) /\ UNCHANGED aux
    \/ \E u \in UsernameInputs : login("POST", u) /\ UNCHANGED aux
    \/ logout /\ UNCHANGED aux
    \/ \E c \in CreateInputs : create_incident(c[1], c[2], c[3]) /\ UNCHANGED aux
    \/ \E i \in IncidentIds, s \in WideStatusInputs, a \in WideAssigneeInputs :
           update_incident(i, s, a) /\ UNCHANGED aux
    \/ \E i \in IncidentIds : delete_incident(i) /\ UNCHANGED aux

SpecWide == Init /\ [][NextWide]_vars

\* The database as the initdb command seeds it: every user has an email.
InitSeeded == Init /\ email = SeedEmail

\* The requests of Next on the seeded database.
SpecSeeded == InitSeeded /\ [][Next]_vars

\* ---------------------------------------------------------- mail threads

\* Thread(target=async_send_mail, args=(app, msg)).start(), once for each
\* message of the request.
send_notification ==
    /\ threads + Len(sent') <= MaxThreads
    /\ threads' = threads + Len(sent')
    /\ UNCHANGED <<printed, handlers>>

\* async_send_mail, were a failed send to reach the request that started it.
async_send_mail_raises(ok) ==
    /\ threads > 0
    /\ threads' = threads - 1
    /\ printed' = IF ok THEN "sent" ELSE "failed"
    /\ response' = IF ok THEN response ELSE "error"
    /\ UNCHANGED <<email, incidents, current_user, flashed, sent, request, handlers>>

\* One of the threads in flight runs to its end: mail.send(msg) returns (ok)
\* or raises, and either way the thread prints a line and is over.
async_send_mail(ok) ==
    /\ threads > 0
    /\ threads' = threads - 1
    /\ printed' = IF ok THEN "sent" ELSE "failed"
    /\ UNCHANGED <<email, incidents, current_user, flashed, sent, response, request, handlers>>

\* Update forms that change the status, the assignee, both or neither.
MailStatusInputs == {Absent, Field("InProgress")}

MailAssigneeInputs == {Absent, Field(<< >>), Field(<<"2">>)}

\* The requests, each starting the threads of its messages, and the threads
\* finishing in any order at any time.
NextMail ==
    \/ login("GET", Absent) /\ send_notification
    \/ \E u \in UsernameInputs : login("POST", u) /\ send_notification
    \/ logout /\ send_notification
    \/ \E c \in CreateInputs : create_incident(c[1], c[2], c[3]) /\ send_notification
    \/ \E i \in IncidentIds, s \in MailStatusInputs, a \in MailAssigneeInputs :
           update_incident(i, s, a) /\ send_notification
    \/ \E i \in IncidentIds : delete_incident(i) /\ send_notification
    \/ \E ok \in BOOLEAN : async_send_mail(ok)

SpecMail == InitSeeded /\ [][NextMail]_vars

\* ------------------------------------------------- concurrent requests
\* Two update requests of the logged-in user for one incident, handled by
\* two threads of the server, each in three steps: the read and the changes
\* in memory, the commit, and the notifications. Logins and creations come
\* between pairs.
RaceStatusInputs == {Field("New"), Field("InProgress")}

RaceAssigneeInputs == {Absent, Field(<<"2">>), Field(<<"3">>)}

Idle == DOMAIN handlers = {}

Finished(h) == handlers[h].pc \in {"done", "failed"}

\* incident = db.session.get(Incident, incident_id) ... up to the commit: the
\* row as read, and with it old_status and old_assignee_id; the row after
\* steps 1 and 2 is Updated(read, status, assigned).
update_incident_read(h, incident_id, new_status, assigned_user_id) ==
    /\ h \notin DOMAIN handlers
    /\ h = "b" => ("a" \in DOMAIN handlers /\ handlers["a"].id = incident_id)
    /\ is_technician
    /\ incident_id \in DOMAIN incidents
    /\ handlers' = handlers @@
          (h :> [id |-> incident_id, status |-> new_status, assigned |-> assigned_user_id,
                 read |-> incidents[incident_id],
                 overlaps |-> h = "b" /\ ~Finished("a"),
                 pc |-> "read", mails |-> << >>])
    /\ UNCHANGED <<email, incidents, current_user, flashed, sent, response, request,
                   threads, printed>>

\* Flush, were the commit to write nothing.
Flush_none(stored, read, updated) == stored

\* The UPDATE of the commit sets the columns the request changed in memory.
Flush(stored, read, updated) ==
    [stored EXCEPT !.status = IF updated.status # read.status THEN updated.status ELSE @,
                   !.assigned_to_id = IF updated.assigned_to_id # read.assigned_to_id
                                      THEN updated.assigned_to_id ELSE @]

\* db.session.commit(): it succeeds (ok), or raises and the request ends
\* with an error, its changes rolled back when the session is removed.
update_incident_commit(h, ok) ==
    /\ h \in DOMAIN handlers
    /\ handlers[h].pc = "read"
    /\ LET r == handlers[h]
           updated == Updated(r.read, r.status, r.assigned)
       IN IF ok
          THEN /\ incidents' = [incidents EXCEPT ![r.id] = Flush(@, r.read, updated)]
               /\ handlers' = [handlers EXCEPT ![h].pc = "committed"]
          ELSE /\ UNCHANGED incidents
               /\ handlers' = [handlers EXCEPT ![h].pc = "failed"]
    /\ UNCHANGED <<email, current_user, flashed, sent, response, request, threads, printed>>

\* The mails of the notification logic after the commit: the commit has
\* expired the row, so incident.status and incident.assigned_to_id are
\* loaded again from the table and compared with old_status and
\* old_assignee_id.
NotifyMails(r) ==
    AssignmentMails(r.id, incidents[r.id], r.read.assigned_to_id)
    \o StatusMails(r.id, incidents[r.id], r.read.status)

\* update_incident_notify, were the mails sent before the commit.
update_incident_notify_early(h) ==
    /\ h \in DOMAIN handlers
    /\ handlers[h].pc \in {"read", "committed"}
    /\ handlers' = [handlers EXCEPT ![h].pc = "done", ![h].mails = NotifyMails(handlers[h])]
    /\ UNCHANGED <<email, incidents, current_user, flashed, sent, response, request,
                   threads, printed>>

\* The request sends its mails and answers with the redirect.
update_incident_notify(h) ==
    /\ h \in DOMAIN handlers
    /\ handlers[h].pc = "committed"
    /\ handlers' = [handlers EXCEPT ![h].pc = "done", ![h].mails = NotifyMails(handlers[h])]
    /\ UNCHANGED <<email, incidents, current_user, flashed, sent, response, request,
                   threads, printed>>

\* Both threads have answered.
teardown ==
    /\ ~Idle
    /\ \A h \in DOMAIN handlers : Finished(h)
    /\ handlers' = NoHandlers
    /\ UNCHANGED <<email, incidents, current_user, flashed, sent, response, request,
                   threads, printed>>

\* POST /incident/new of a logged-in user with all fields, when
\* db.session.commit() raises: no flash, no mail, an error page.
create_incident_raises(title, description, priority) ==
    /\ is_authenticated
    /\ Truthy(title) /\ Truthy(description) /\ Truthy(priority)
    /\ request' = Route("create", 0)
    /\ flashed' = << >>
    /\ sent' = << >>
    /\ response' = "error"
    /\ UNCHANGED <<email, incidents, current_user>>

NextConcurrent ==
    \/ \E u \in UsernameInputs : Idle /\ login("POST", u) /\ UNCHANGED aux
    \/ \E c \in CreateInputs : Idle /\ create_incident(c[1], c[2], c[3]) /\ UNCHANGED aux
    \/ \E c \in CreateInputs : Idle /\ create_incident_raises(c[1], c[2], c[3]) /\ UNCHANGED aux
    \/ \E h \in Slots, i \in IncidentIds, s \in RaceStatusInputs, a \in RaceAssigneeInputs :
           update_incident_read(h, i, s, a)
    \/ \E h \in Slots, ok \in BOOLEAN : update_incident_commit(h, ok)
    \/ \E h \in Slots : update_incident_notify(h)
    \/ teardown

SpecConcurrent == InitSeeded /\ [][NextConcurrent]_vars

\* ------------------------------------------------------------ properties
\* The subjects of the messages in a list, and the users it addresses.
HasMail(msgs, subject) == \E k \in 1..Len(msgs) : msgs[k].subject = subject

Recipients(msgs, subject) ==
    {u \in Users : email[u] # "" /\ \E k \in 1..Len(msgs) :
                        msgs[k].subject = subject /\ msgs[k].to = email[u]}

\* The role of the logged-in user, as the user table has it.
ActorIsManager == current_user # NoUser /\ SeedRole[current_user] = 1

ActorIsTechnician == current_user # NoUser /\ SeedRole[current_user] = 2

ActorIsReporter == current_user # NoUser /\ SeedRole[current_user] = 3

\* A field that is missing or empty.
Blank(f) == f = Absent \/ f = Field("")

\* The claims about what a request with given fields does are stated in the
\* form "no step in which the outcome differs is that request": for all
\* fields f, (the fields are as the claim says /\ ~outcome) => ~handler(f),
\* which is (the fields are as the claim says /\ handler(f)) => outcome.

\* The step is an update request, by the logged-in user, of a stored incident.
UpdateOfExisting ==
    /\ request'.op = "update"
    /\ current_user # NoUser
    /\ request'.id \in DOMAIN incidents

\* C1: an update of an existing incident by a Reporter (neither Technician nor
\* Manager) is refused with the permission message, whatever status and
\* assignee it carries; the incident table is unchanged and no mail is sent.
C1_ReporterUpdateDenied ==
    [][(UpdateOfExisting /\ ActorIsReporter)
        => (/\ flashed' = <<"denied_update">>
            /\ incidents' = incidents
            /\ sent' = << >>)]_vars

C1_Witness ==
    /\ request.op = "update"
    /\ request.id \in DOMAIN incidents
    /\ current_user # NoUser /\ SeedRole[current_user] = 3
    /\ flashed = <<"denied_update">>

\* C2: when a Technician's update carries a status different from the current
\* one and, as assignee, the id of a user other than the Technician and other
\* than the current assignee, the assignment is rejected (assignee unchanged,
\* no assignment mail) and the status change is still stored.
C2_PartialDenialCommitsStatus ==
    [][(UpdateOfExisting /\ ActorIsTechnician) =>
       \A s \in StatusInputs, a \in AssigneeInputs :
        (/\ ~Blank(s) /\ s[1] # incidents[request'.id].status
         /\ a # Absent /\ ParsedAssignee[a] # NoUser
         /\ ParsedAssignee[a] # current_user
         /\ ParsedAssignee[a] # incidents[request'.id].assigned_to_id
         /\ ~(/\ incidents'[request'.id].assigned_to_id = incidents[request'.id].assigned_to_id
              /\ incidents'[request'.id].status = s[1]
              /\ ~HasMail(sent', "Assigned to You")
              /\ ~HasMail(sent', "Unassigned")))
        => ~update_incident(request'.id, s, a)]_vars

C2_Witness ==
    /\ request.op = "update"
    /\ request.id \in DOMAIN incidents
    /\ current_user # NoUser /\ SeedRole[current_user] = 2
    /\ flashed = <<"status_updated", "denied_assign">>
    /\ incidents[request.id].status = "InProgress"

\* C3 (as stated): whenever a non-manager passes their own user id as assignee
\* in an update of an existing incident, they become the assignee.
C3_Original ==
    [][(UpdateOfExisting /\ ~ActorIsManager) =>
       \A s \in StatusInputs, a \in AssigneeInputs :
        (/\ a # Absent /\ ParsedAssignee[a] = current_user
         /\ incidents'[request'.id].assigned_to_id # current_user)
        => ~update_incident(request'.id, s, a)]_vars

\* C3 (amended): whenever a Technician passes their own user id as assignee in
\* an update of an existing incident, they become the assignee, whoever the
\* previous assignee was.
C3_TechnicianSelfAssign ==
    [][(UpdateOfExisting /\ ActorIsTechnician) =>
       \A s \in StatusInputs, a \in AssigneeInputs :
        (/\ a # Absent /\ ParsedAssignee[a] = current_user
         /\ incidents'[request'.id].assigned_to_id # current_user)
        => ~update_incident(request'.id, s, a)]_vars

C3_Witness ==
    /\ request.op = "update"
    /\ request.id \in DOMAIN incidents
    /\ current_user # NoUser /\ SeedRole[current_user] = 2
    /\ incidents[request.id].assigned_to_id = current_user
    /\ HasMail(sent, "Assigned to You")

\* C4: when a Technician who is the assignee of an incident sends an update
\* whose assignee field is blank or non-positive, the incident is unassigned.
C4_TechnicianSelfUnassign ==
    [][(UpdateOfExisting /\ ActorIsTechnician) =>
       \A s \in StatusInputs, a \in AssigneeInputs :
        (/\ incidents[request'.id].assigned_to_id = current_user
         /\ a # Absent /\ ParsedAssignee[a] = NoUser
         /\ incidents'[request'.id].assigned_to_id # NoUser)
        => ~update_incident(request'.id, s, a)]_vars

\* C5: a create request of a logged-in user in which title, description or
\* priority is missing or empty is refused with the validation message; no
\* incident is stored and no mail is sent.
C5_CreateValidation ==
    [][(request'.op = "create" /\ current_user # NoUser) =>
       \A c \in CreateInputs :
        (/\ (Blank(c[1]) \/ Blank(c[2]) \/ Blank(c[3]))
         /\ ~(/\ flashed' = <<"fields_required">>
              /\ incidents' = incidents
              /\ sent' = << >>))
        => ~create_incident(c[1], c[2], c[3])]_vars

C5_Witness ==
    /\ request.op = "create"
    /\ current_user # NoUser
    /\ flashed = <<"fields_required">>

\* C6: a create request of a logged-in user of any role with title,
\* description and priority all non-empty adds exactly one incident, with
\* status New, the user as reporter and no assignee, leaves the other rows
\* alone, and sends the new-incident mail to exactly the Managers that have an
\* e-mail address.
C6_CreateAddsOneAndNotifiesManagers ==
    [][(request'.op = "create" /\ current_user # NoUser) =>
       \A c \in CreateInputs :
        (/\ ~Blank(c[1]) /\ ~Blank(c[2]) /\ ~Blank(c[3])
         /\ ~(/\ \E i \in IncidentIds \ DOMAIN incidents :
                   /\ DOMAIN incidents' = DOMAIN incidents \cup {i}
                   /\ incidents'[i].status = "New"
                   /\ incidents'[i].reporter_id = current_user
                   /\ incidents'[i].assigned_to_id = NoUser
                   /\ incidents'[i].title = c[1][1]
                   /\ incidents'[i].description = c[2][1]
                   /\ incidents'[i].priority = c[3][1]
              /\ \A j \in DOMAIN incidents : incidents'[j] = incidents[j]
              /\ Recipients(sent', "NEW Incident")
                   = {u \in Users : SeedRole[u] = 1 /\ email[u] # ""}
              /\ Len(sent') = Cardinality({u \in Users : SeedRole[u] = 1 /\ email[u] # ""})
              /\ \A k \in 1..Len(sent') :
                   /\ sent'[k].subject = "NEW Incident"
                   /\ \E u \in Users : SeedRole[u] = 1 /\ sent'[k].to = email[u]))
        => ~create_incident(c[1], c[2], c[3])]_vars

C6_Witness ==
    /\ request.op = "create"
    /\ flashed = <<"created">>
    /\ current_user # NoUser /\ SeedRole[current_user] = 3
    /\ Len(sent) = 1
    /\ \E i \in DOMAIN incidents : incidents[i].reporter_id = current_user

\* C7: an update by a Technician or Manager whose status equals the current
\* status of the incident leaves the status as it is and sends no
\* status-change mail; so the second of two equal status updates in a row
\* sends none.  (A step of theirs that changes the status, flashes the status
\* message or sends a status mail is no update carrying the current status.)
C7_SameStatusIsIdempotent ==
    [][(/\ UpdateOfExisting /\ (ActorIsTechnician \/ ActorIsManager)
        /\ ~(/\ incidents'[request'.id].status = incidents[request'.id].status
             /\ ~HasMail(sent', "Status Updated to")
             /\ ~HasMail(sent', "Status Change")
             /\ \A k \in 1..Len(flashed') : flashed'[k] # "status_updated"))
       => \A s \in StatusInputs :
            (~Blank(s) /\ s[1] = incidents[request'.id].status)
            => \A a \in AssigneeInputs : ~update_incident(request'.id, s, a)]_vars

C7_Witness ==
    /\ request.op = "update"
    /\ request.id \in DOMAIN incidents
    /\ current_user # NoUser /\ SeedRole[current_user] \in {1, 2}
    /\ incidents[request.id].status = "InProgress"
    /\ flashed = << >>
    /\ sent = << >>

\* C8: a delete of an existing incident by a logged-in user who is not a
\* Manager is refused and leaves the table unchanged; and a row leaves the
\* table only in a delete request of a Manager for that row.
C8_OnlyManagerDeletes ==
    [][/\ (/\ request'.op = "delete" /\ current_user # NoUser /\ ~ActorIsManager
           /\ request'.id \in DOMAIN incidents)
          => (flashed' = <<"denied_delete">> /\ incidents' = incidents)
       /\ \A i \in DOMAIN incidents :
            i \notin DOMAIN incidents'
            => (ActorIsManager /\ request' = Route("delete", i))]_vars

C8_Witness ==
    /\ request.op = "delete"
    /\ request.id \in DOMAIN incidents
    /\ current_user # NoUser /\ SeedRole[current_user] = 2
    /\ flashed = <<"denied_delete">>

\* C9: a Manager's delete of an existing incident removes the row and sends
\* no mail; an update or delete of that id that follows it is answered
\* not-found and changes nothing.
C9_HardDelete ==
    [][/\ (/\ request'.op = "delete" /\ ActorIsManager
           /\ request'.id \in DOMAIN incidents)
          => (/\ request'.id \notin DOMAIN incidents'
              /\ \A j \in DOMAIN incidents \ {request'.id} :
                    j \in DOMAIN incidents' /\ incidents'[j] = incidents[j]
              /\ flashed' = <<"deleted">>
              /\ sent' = << >>)
       /\ (/\ request.op = "delete" /\ flashed = <<"deleted">>
           /\ current_user # NoUser
           /\ request'.op \in {"update", "delete"} /\ request'.id = request.id)
          => (/\ flashed' = <<"not_found">>
              /\ incidents' = incidents
              /\ sent' = << >>)]_vars

C9_Witness ==
    /\ request.op = "delete"
    /\ current_user # NoUser /\ SeedRole[current_user] = 1
    /\ flashed = <<"deleted">>
    /\ request.id \notin DOMAIN incidents
    /\ sent = << >>

\* C10: an update request, accepted, partly rejected or rejected, changes no
\* column of any incident other than status and assignee, and neither adds
\* nor removes a row: reporter, priority, title and description stay as
\* stored at creation.
C10_UpdateFrame ==
    [][request'.op = "update"
        => (/\ DOMAIN incidents' = DOMAIN incidents
            /\ \A i \in DOMAIN incidents :
                 /\ incidents'[i].reporter_id = incidents[i].reporter_id
                 /\ incidents'[i].priority = incidents[i].priority
                 /\ incidents'[i].title = incidents[i].title
                 /\ incidents'[i].description = incidents[i].description
                 /\ (i # request'.id => incidents'[i] = incidents[i]))]_vars

C10_Witness ==
    /\ request.op = "update"
    /\ request.id \in DOMAIN incidents
    /\ flashed = <<"status_updated", "assignment_notified">>
    /\ incidents[request.id].assigned_to_id # incidents[request.id].reporter_id
    /\ incidents[request.id].priority = "High"

\* C13: a create, update or delete request made while nobody is logged in
\* (before any login, after a login with an unknown username, after logout)
\* changes no incident, sends no mail, flashes nothing, leaves nobody logged
\* in and is redirected to the login page.
C13_UnauthenticatedChangesNothing ==
    [][(current_user = NoUser /\ request'.op \in {"create", "update", "delete"})
        => (/\ incidents' = incidents
            /\ email' = email
            /\ sent' = << >>
            /\ flashed' = << >>
            /\ current_user' = NoUser
            /\ response' = "login")]_vars

C13_Witness ==
    /\ request.op = "update"
    /\ request.id \in DOMAIN incidents
    /\ current_user = NoUser
    /\ response = "login"
    /\ sent = << >>

\* The messages of a list with a given subject.
MailCount(msgs, subject) ==
    Cardinality({k \in 1..Len(msgs) : msgs[k].subject = subject})

\* C14: when an update changes the stored status, the reporter's status mail
\* goes to the reporter, once, exactly when the reporter has an email; and the
\* assignee's status mail goes to the assignee the row has after the update,
\* once, exactly when that assignee is a user, has an email and is not the
\* logged-in user making the update.
C14_StatusMailRecipients ==
    [][(/\ UpdateOfExisting
        /\ incidents'[request'.id].status # incidents[request'.id].status)
        => LET row == incidents'[request'.id]
           IN /\ Recipients(sent', "Status Updated to")
                    = {u \in Users : u = row.reporter_id /\ email[u] # ""}
              /\ Recipients(sent', "Status Change")
                    = {u \in Users : /\ u = row.assigned_to_id
                                     /\ email[u] # ""
                                     /\ u # current_user}
              /\ MailCount(sent', "Status Updated to") <= 1
              /\ MailCount(sent', "Status Change") <= 1]_vars

C14_Witness ==
    /\ request.op = "update"
    /\ request.id \in DOMAIN incidents
    /\ current_user # NoUser
    /\ incidents[request.id].assigned_to_id \notin {NoUser, current_user}
    /\ Recipients(sent, "Status Updated to") = {incidents[request.id].reporter_id}
    /\ Recipients(sent, "Status Change") = {incidents[request.id].assigned_to_id}

\* C15 as stated: the "Unassigned" mail is sent exactly when the assignee
\* changed from a user to none, whether or not that user has an email.
C15_Original ==
    [][UpdateOfExisting
        => LET old == incidents[request'.id].assigned_to_id
               new == incidents'[request'.id].assigned_to_id
           IN /\ HasMail(sent', "Assigned to You")
                    <=> (new # old /\ new \in Users /\ email[new] # "")
              /\ HasMail(sent', "Unassigned")
                    <=> (new # old /\ old # NoUser /\ new = NoUser)]_vars

\* C15: an update sends the "Assigned to You" mail, to the new assignee,
\* exactly when the stored assignee changed to a user with an email; it sends
\* the "Unassigned" mail, to the previous assignee, exactly when the stored
\* assignee changed from a user with an email to none; it never sends both
\* (a reassignment sends nothing to the previous assignee), and sends neither
\* when the stored assignee did not change.
C15_AssignmentMails ==
    [][UpdateOfExisting
        => LET old == incidents[request'.id].assigned_to_id
               new == incidents'[request'.id].assigned_to_id
           IN /\ Recipients(sent', "Assigned to You")
                    = {u \in Users : u = new /\ new # old /\ email[u] # ""}
              /\ Recipients(sent', "Unassigned")
                    = {u \in Users : u = old /\ new = NoUser /\ email[u] # ""}
              /\ MailCount(sent', "Assigned to You") + MailCount(sent', "Unassigned") <= 1
              /\ new = old => (/\ ~HasMail(sent', "Assigned to You")
                               /\ ~HasMail(sent', "Unassigned"))]_vars

\* A Manager has assigned an incident to reporter_bob: one mail, to him.
C15_Witness ==
    /\ request.op = "update"
    /\ request.id \in DOMAIN incidents
    /\ current_user # NoUser /\ SeedRole[current_user] = 1
    /\ incidents[request.id].assigned_to_id = 3
    /\ flashed = <<"assignment_notified">>
    /\ Recipients(sent, "Assigned to You") = {3}
    /\ MailCount(sent, "Unassigned") = 0

\* What the assigned_to_id fields of the requests stand for: the decimal
\* numerals of the users, and everything else that is present.
PositiveNumeral == (Field(<<"1">>) :> 1) @@ (Field(<<"2">>) :> 2) @@ (Field(<<"3">>) :> 3)

BlankOrNonPositive == {Field(<< >>), Field(<<"0">>), Field(<<"-", "1">>)}

\* C16 as stated: a Manager's update of an assigned incident with the
\* assigned_to_id absent, blank or non-positive leaves it unassigned.
C16_Original ==
    [][(UpdateOfExisting /\ ActorIsManager
        /\ incidents[request'.id].assigned_to_id # NoUser)
        => (incidents'[request'.id].assigned_to_id # NoUser
            => \A a \in BlankOrNonPositive \cup {Absent}, s \in StatusInputs :
                 ~update_incident(request'.id, s, a))]_vars

\* C16: in a Manager's update, a blank or non-positive assigned_to_id stands
\* for "unassign" and the numeral of a positive integer for that user id: the
\* row is left with no assignee, or with that assignee; an update without the
\* field leaves the assignee as it was.
C16_AssigneeInterpretation ==
    [][(UpdateOfExisting /\ ActorIsManager)
        => \A a \in AssigneeInputs :
             (incidents'[request'.id].assigned_to_id #
                 (IF a = Absent THEN incidents[request'.id].assigned_to_id
                  ELSE IF a \in BlankOrNonPositive THEN NoUser
                  ELSE PositiveNumeral[a]))
             => \A s \in StatusInputs : ~update_incident(request'.id, s, a)]_vars

\* A Manager has unassigned an incident.
C16_Witness ==
    /\ request.op = "update"
    /\ request.id \in DOMAIN incidents
    /\ current_user # NoUser /\ SeedRole[current_user] = 1
    /\ incidents[request.id].assigned_to_id = NoUser
    /\ MailCount(sent, "Unassigned") = 1

\* The four values the status column is meant to hold.
StatusValues == {"New", "InProgress", "Resolved", "Closed"}

\* C11: in every reachable state the assignee of every stored incident is
\* nobody or the id of a user of the user table.
C11_AssigneeExists ==
    \A i \in DOMAIN incidents : incidents[i].assigned_to_id \in Users \cup {NoUser}

\* C12: in every reachable state the status of every stored incident is one
\* of New, InProgress, Resolved, Closed.
C12_StatusEnumerated ==
    \A i \in DOMAIN incidents : incidents[i].status \in StatusValues

\* C20: no update sends two status mails (the reporter's "Status Updated to"
\* and the assignee's "Status Change") to the same user.
C20_OneStatusMailPerUser ==
    [][UpdateOfExisting
        => \A u \in Users :
             email[u] # ""
             => Cardinality({k \in 1..Len(sent') :
                    /\ sent'[k].to = email[u]
                    /\ sent'[k].subject \in {"Status Updated to", "Status Change"}}) <= 1]_vars

\* C17: the step in which a request answers is the step in which it starts
\* the threads of its mails, one for each, none of which has finished; and
\* the end of a thread, whether its send succeeded or failed and whatever
\* requests came before it, changes neither the stored incidents nor the
\* answer, the flashes or the login of the requester: no request is ever
\* answered with an error.
C17_FireAndForget ==
    [][/\ threads' < threads
          => UNCHANGED <<email, incidents, current_user, flashed, sent, response, request>>
       /\ threads' >= threads
          => (/\ threads' = threads + Len(sent')
              /\ printed' = printed
              /\ response' \in {"index", "login", "login_page"})]_vars

\* A request has been answered while its own threads and an earlier one are
\* in flight, after a send that failed.
C17_Witness ==
    /\ printed = "failed"
    /\ request.op = "update"
    /\ response = "index"
    /\ sent # << >>
    /\ threads > Len(sent)

\* Where a request was before the step ("none": not yet read).
PcBefore(h) == IF h \in DOMAIN handlers THEN handlers[h].pc ELSE "none"

\* C18: an update request commits once, the row with its status change and
\* its assignment change together, and sends its mails only after that
\* commit: a request has sent mails only when it is done, it gets done only
\* from the committed state, it gets committed only from the read state and
\* in that step the row takes both changes; the stored rows change in no
\* other step of a request; when the commit fails nothing is stored and no
\* mail is ever sent for the request. And a creation sends its mails only in
\* the step that stores the new row; answered with an error, it has stored
\* and sent nothing.
C18_CommitOnceThenNotify ==
    [][/\ \A h \in DOMAIN handlers' :
            LET r == handlers'[h]
                merged == Updated(r.read, r.status, r.assigned)
            IN /\ r.mails # << >> => r.pc = "done"
               /\ (r.pc = "done" /\ PcBefore(h) # "done") => PcBefore(h) = "committed"
               /\ (r.pc = "committed" /\ PcBefore(h) # "committed")
                  => (/\ PcBefore(h) = "read"
                      /\ merged.status # r.read.status
                         => incidents'[r.id].status = merged.status
                      /\ merged.assigned_to_id # r.read.assigned_to_id
                         => incidents'[r.id].assigned_to_id = merged.assigned_to_id)
               /\ r.pc = "failed"
                  => (r.mails = << >> /\ (PcBefore(h) # "failed" => incidents' = incidents))
       /\ (incidents' # incidents /\ handlers' # handlers)
          => \E h \in DOMAIN handlers :
               /\ handlers[h].pc = "read" /\ handlers'[h].pc = "committed"
               /\ \A g \in DOMAIN handlers \ {h} : handlers'[g] = handlers[g]
               /\ \A i \in DOMAIN incidents \ {handlers[h].id} : incidents'[i] = incidents[i]
               /\ DOMAIN incidents' = DOMAIN incidents
       /\ (handlers' = handlers /\ sent' # << >>)
          => (DOMAIN incidents' # DOMAIN incidents /\ response' = "index")
       /\ (handlers' = handlers /\ response' = "error")
          => (sent' = << >> /\ incidents' = incidents)]_vars

\* Of two requests the first failed at its commit and sent nothing; the
\* second committed its status change and its assignment together and then
\* sent its mails.
C18_Witness ==
    /\ DOMAIN handlers = Slots
    /\ handlers["a"].pc = "failed" /\ handlers["a"].mails = << >>
    /\ handlers["b"].pc = "done" /\ handlers["b"].mails # << >>
    /\ handlers["b"].read.status = "New" /\ handlers["b"].read.assigned_to_id = NoUser
    /\ incidents[handlers["b"].id].status = "InProgress"
    /\ incidents[handlers["b"].id].assigned_to_id = 3

\* What handling request x and then request y, one after the other, makes of
\* a row: the row in the end and the mails of each.
SerialRun(row0, x, y) ==
    LET row1 == Updated(row0, x.status, x.assigned)
        row2 == Updated(row1, y.status, y.assigned)
    IN [row |-> row2,
        mails |-> <<AssignmentMails(x.id, row1, row0.assigned_to_id)
                        \o StatusMails(x.id, row1, row0.status),
                    AssignmentMails(y.id, row2, row1.assigned_to_id)
                        \o StatusMails(y.id, row2, row1.status)>>]

BothDone ==
    /\ DOMAIN handlers = Slots
    /\ handlers["a"].pc = "done"
    /\ handlers["b"].pc = "done"

\* C19: the outcome of two update requests for one incident, both done,
\* differs from that of handling one after the other only when they
\* overlapped: if the second read the row after the first had answered, the
\* row and the mails of both are those of the first followed by the second.
C19_SerialUnlessOverlapping ==
    (BothDone /\ ~handlers["b"].overlaps)
    => LET serial == SerialRun(handlers["a"].read, handlers["a"], handlers["b"])
       IN /\ incidents[handlers["a"].id] = serial.row
          /\ <<handlers["a"].mails, handlers["b"].mails>> = serial.mails

\* Both requests are done and the stored row is the one neither order of
\* handling them one after the other leaves: each took its decisions against
\* the row it had read before the other committed.
C19_Witness ==
    /\ BothDone
    /\ handlers["b"].overlaps
    /\ incidents[handlers["a"].id]
          \notin {SerialRun(handlers["a"].read, handlers["a"], handlers["b"]).row,
                  SerialRun(handlers["a"].read, handlers["b"], handlers["a"]).row}

====
